---- MODULE Spec2Model ----
\* A model of the Sentry API client of sentry_cli.py / sentry_client.py:
\* the request executor (_get), the cursor pagination walker (_get_paginated)
\* and its caller list_issue_events (specification Spec), the fetch-issues
\* command with its query composition and local text filter (SpecIssues), and
\* the three commands fetch-issues, fetch-issue and fetch-events up to the
\* process's exit (SpecCmd).
\* Strings that are taken apart or put together are sequences of atoms: single
\* characters, or literal chunks such as "environment:".
EXTENDS Integers, Sequences, FiniteSets, TLC

\* ---------------------------------------------------------------- values
\* Python's Optional: None is the empty tuple, a present value x is <<x>>.
None == <<>>
Some(x) == <<x>>

\* Python truthiness of an Optional[int]: None and 0 are falsy.
TruthyInt(opt) == opt # None /\ opt[1] # 0

\* ---------------------------------------------------------------- bounds
\* Largest positive max_pages the caller passes.
MaxMaxPages == 3
\* Cap on the requests of one call (an unbounded walk is cut here).
MaxRequests == 4

\* Longest issue list the server answers fetch-issues with.
MaxIssues == 2

\* ------------------------------------------------------ program constants
\* fetch-issues --limit default
IssuesLimit == 50
\* list_issue_events(limit=100)
DefaultLimit == 100

\* ------------------------------------------------------------ environment
\* The URL list_issue_events builds: f"{base_url}/issues/{issue_id}/events/".
BaseUrl == "https://sentry.io/api/0/issues/123/events/"
\* URLs the server puts in its next links. Sentry's cursor links are absolute
\* URLs, so none of them is the empty string.
NextUrls == {"events/?cursor=0:100:0", "events/?cursor=0:200:0"}
\* The value of the next link's 'results' attribute, when the attribute is there.
ResultsAttrs == {None, Some("true"), Some("false"), Some("True")}
\* response.links: no 'next' relation, or a 'next' relation with its url and attributes.
Links == {None} \cup {Some([url |-> u, results |-> r]) : u \in NextUrls, r \in ResultsAttrs}
\* The JSON lists a page can carry.
Pages == {<< >>, <<"a">>, <<"a", "b">>}
\* HTTP statuses the server answers with.
Statuses == {200, 304, 404, 500}
\* What one requests.get can meet: no response at all (a connection error), or
\* an HTTP response whose body is a JSON list or is not JSON.
Outcomes ==
    {[kind |-> "neterr", status |-> 0, json |-> FALSE, body |-> << >>, links |-> None]}
    \cup {[kind |-> "http", status |-> s, json |-> FALSE, body |-> << >>, links |-> None] :
              s \in Statuses}
    \cup {[kind |-> "http", status |-> s, json |-> TRUE, body |-> b, links |-> l] :
              s \in Statuses, b \in Pages, l \in Links}

\* The max_pages values a caller passes (--max-pages is a plain int).
MaxPagesValues == {None} \cup {Some(n) : n \in (-1)..MaxMaxPages}

\* ------------------------------------------------------------------ state
VARIABLES
    pc,         \* where the call is: "start", "loop", "single", "done", "failed"
    paginate,   \* list_issue_events' paginate argument
    max_pages,  \* list_issue_events' max_pages argument
    url,        \* _get_paginated's url
    params,     \* _get_paginated's params
    caller_params, \* the mapping list_issue_events built and passed in
    all_items,  \* _get_paginated's accumulator
    page_count, \* _get_paginated's counter
    requests,   \* number of requests.get calls issued so far
    lastReq,    \* the url and params of the latest request
    lastResp,   \* what the latest request met, and whether _get raised
    pages,      \* the JSON lists _get_paginated has read, in fetch order
    hasMore,    \* for each of them, whether its next link had results="true"
    result,     \* what the call returned to its caller
    error,      \* the exception that left the call
    args,       \* fetch-issues: the parsed command line
    query,      \* fetch-issues: the composed query
    fetched,    \* fetch-issues: the list list_issues returned
    issues,     \* fetch-issues: the list after the local filter
    rendered,   \* what the command printed of the fetched resources
    stderr,     \* what the command wrote to the error stream
    exit_code   \* the process's exit status, once it has ended

walkVars == <<paginate, max_pages, url, params, caller_params, all_items, page_count, pages, hasMore, result>>
cmdVars == <<args, query, fetched, issues, rendered, stderr, exit_code>>
vars == <<pc, requests, lastReq, lastResp, error, walkVars, cmdVars>>

\* ------------------------------------------------------------- operators
\* Mutant of raise_for_status: only server errors raise.
raise_for_status_5xx(status) == 500 <= status /\ status < 600

\* response.raise_for_status(): HTTPError for 4xx and 5xx.
raise_for_status(status) ==
    (400 <= status /\ status < 500) \/ (500 <= status /\ status < 600)

\* _get: requests.get, then raise_for_status, then return the response.
get(o) ==
    IF o.kind = "neterr" THEN "ConnectionError"
    ELSE IF raise_for_status(o.status) THEN "HTTPError"
    ELSE "returned"

\* Mutant of extend: the new page is put in front of the accumulator.
extend_prepend(items, body) == body \o items

\* all_items.extend(response.json())
extend(items, body) == items \o body

\* Mutant of has_next: any 'next' relation is followed, whatever 'results' says.
has_next_any(links) == links # None

\* Mutant of has_next: 'results' is compared without regard to case.
has_next_nocase(links) == links # None /\ links[1].results \in {Some("true"), Some("True")}

\* 'next' in response.links and response.links['next'].get('results') == 'true'
has_next(links) == links # None /\ links[1].results = Some("true")

\* url = response.links['next']['url']
next_url(links) == links[1].url

\* Mutant of next_params: the first request's params are sent again.
next_params_kept(p) == p

\* params = None  # URL already has params
next_params(p) == None

\* Mutant of bound_hit: a negative max_pages is unbounded, like 0.
bound_hit_positive(mp, count) == mp # None /\ mp[1] > 0 /\ count >= mp[1]

\* Mutant of bound_hit: the bound is compared with > (one page too many).
bound_hit_gt(mp, count) == TruthyInt(mp) /\ count > mp[1]

\* Mutant of bound_hit: max_pages is ignored.
bound_hit_never(mp, count) == FALSE

\* Mutant of bound_hit: only None is unbounded, 0 is taken as a bound.
bound_hit_zero(mp, count) == mp # None /\ count >= mp[1]

\* max_pages and page_count >= max_pages
bound_hit(mp, count) == TruthyInt(mp) /\ count >= mp[1]

\* Mutant of Raise: the walker swallows the exception and returns what it has.
Raise_partial(exc) ==
    /\ pc' = "done"
    /\ error' = "none"
    /\ result' = Some(all_items)

\* An exception leaves _get_paginated / list_issue_events: nothing catches it
\* there, the frame and its accumulator are dropped and the caller gets no value.
Raise(exc) ==
    /\ pc' = "failed"
    /\ error' = exc
    /\ result' = None

\* return all_items
Return(items) ==
    /\ pc' = "done"
    /\ error' = "none"
    /\ result' = Some(items)

\* The command line before fetch-issues has parsed one.
NoArgs == [environment |-> None, start_at |-> None, end_at |-> None, query |-> None,
           text_filter |-> None]

NoReq == [url |-> "", params |-> None]
NoResp == [kind |-> "none", status |-> 0, links |-> None, got |-> "none"]
Met(o) == [kind |-> o.kind, status |-> o.status, links |-> o.links, got |-> get(o)]

\* ------------------------------------------------------------------ Init
Init ==
    /\ pc = "start"
    /\ paginate \in BOOLEAN
    /\ max_pages \in MaxPagesValues
    /\ url = BaseUrl
    /\ params = None
    /\ caller_params = None
    /\ all_items = << >>
    /\ page_count = 0
    /\ requests = 0
    /\ lastReq = NoReq
    /\ lastResp = NoResp
    /\ pages = << >>
    /\ hasMore = << >>
    /\ result = None
    /\ error = "none"
    /\ args = NoArgs
    /\ query = None
    /\ fetched = None
    /\ issues = << >>
    /\ rendered = None
    /\ stderr = "none"
    /\ exit_code = None

\* ---------------------------------------------------------------- actions
\* list_issue_events up to its branch: builds url and params; with paginate it
\* enters _get_paginated (all_items = [], page_count = 0).
ListIssueEvents ==
    /\ pc = "start"
    /\ url' = BaseUrl
    /\ params' = Some([limit |-> DefaultLimit])
    /\ caller_params' = params'
    /\ all_items' = << >>
    /\ page_count' = 0
    /\ pc' = IF paginate THEN "loop" ELSE "single"
    /\ UNCHANGED <<paginate, max_pages, requests, lastReq, lastResp, pages, hasMore,
                   result, error>>
    /\ UNCHANGED cmdVars

\* One iteration of _get_paginated's while loop, against the server's answer o:
\* the loop test, _get, extend, the next-link test, the max_pages test. The
\* walk is cut after MaxRequests requests.
GetPaginated(o) ==
    /\ pc = "loop"
    /\ url # ""
    /\ requests < MaxRequests
    /\ requests' = requests + 1
    /\ lastReq' = [url |-> url, params |-> params]
    /\ lastResp' = Met(o)
    /\ UNCHANGED <<paginate, max_pages, caller_params>>
    /\ UNCHANGED cmdVars
    /\ IF get(o) # "returned"
       THEN /\ Raise(get(o))
            /\ UNCHANGED <<url, params, all_items, page_count, pages, hasMore>>
       ELSE IF ~o.json
       THEN /\ Raise("JSONDecodeError")
            /\ UNCHANGED <<url, params, all_items, page_count, pages, hasMore>>
       ELSE /\ all_items' = extend(all_items, o.body)
            /\ pages' = Append(pages, o.body)
            /\ hasMore' = Append(hasMore, o.links # None /\ o.links[1].results = Some("true"))
            /\ IF has_next(o.links)
               THEN /\ url' = next_url(o.links)
                    /\ params' = next_params(params)
                    /\ page_count' = page_count + 1
                    /\ IF bound_hit(max_pages, page_count') \/ url' = ""
                       THEN Return(all_items')
                       ELSE /\ pc' = "loop"
                            /\ UNCHANGED <<result, error>>
               ELSE /\ Return(all_items')
                    /\ UNCHANGED <<url, params, page_count>>

\* list_issue_events without paginate: one _get, response.json() returned.
ListIssueEventsSingle(o) ==
    /\ pc = "single"
    /\ requests' = requests + 1
    /\ lastReq' = [url |-> url, params |-> params]
    /\ lastResp' = Met(o)
    /\ UNCHANGED <<paginate, max_pages, url, params, caller_params, all_items, page_count,
                   pages, hasMore>>
    /\ UNCHANGED cmdVars
    /\ IF get(o) # "returned"
       THEN Raise(get(o))
       ELSE IF ~o.json
       THEN Raise("JSONDecodeError")
       ELSE Return(o.body)

Next ==
    \/ ListIssueEvents
    \/ \E o \in Outcomes : GetPaginated(o)
    \/ \E o \in Outcomes : ListIssueEventsSingle(o)

Spec == Init /\ [][Next]_vars

\* The program is one thread of blocking calls: as long as a step is possible
\* (every request returns or fails), one is taken.
SpecLive == Init /\ [][Next]_vars /\ WF_vars(Next)

\* =========================================================== fetch-issues
\* Python truthiness of an Optional[str]: None and "" are falsy.
TruthyStr(opt) == opt # None /\ opt[1] # << >>

\* ---- the command line
Environments == {None, Some(<< >>), Some(<<"production">>)}
StartAts == {None, Some(<<"2024-01-01">>), Some(<<"yesterday">>)}
EndAts == {None, Some(<<"2024-02-01", " ", "10:30", "+00:00">>), Some(<<"soon">>)}
Queries == {None, Some(<<"is:unresolved">>)}
TextFilters == {None, Some(<< >>), Some(<<"n", "U">>), Some(<<"N", "O">>)}

\* ---- datetime.fromisoformat and datetime.isoformat
DateParts == {"2024-01-01", "2024-02-01"}
TimeParts == {"10:30", "10:30:00"}
TzParts == {"+00:00"}
Separators == {"T", " "}
\* HH:MM is read as HH:MM:00.
FullTime(t) == IF t = "10:30" THEN "10:30:00" ELSE t
BadDate == [ok |-> FALSE, date |-> "", time |-> "", tz |-> None]
\* YYYY-MM-DD[*HH:MM[:SS][+HH:MM]]; anything else is a ValueError (ok = FALSE).
fromisoformat(s) ==
    IF Len(s) = 1 /\ s[1] \in DateParts
    THEN [ok |-> TRUE, date |-> s[1], time |-> "00:00:00", tz |-> None]
    ELSE IF Len(s) = 3 /\ s[1] \in DateParts /\ s[2] \in Separators /\ s[3] \in TimeParts
    THEN [ok |-> TRUE, date |-> s[1], time |-> FullTime(s[3]), tz |-> None]
    ELSE IF Len(s) = 4 /\ s[1] \in DateParts /\ s[2] \in Separators /\ s[3] \in TimeParts
              /\ s[4] \in TzParts
    THEN [ok |-> TRUE, date |-> s[1], time |-> FullTime(s[3]), tz |-> Some(s[4])]
    ELSE BadDate
\* YYYY-MM-DDTHH:MM:SS, followed by the UTC offset of an aware datetime.
isoformat(dt) == <<dt.date, "T", dt.time>> \o (IF dt.tz = None THEN << >> ELSE <<dt.tz[1]>>)

\* ---- the query composer
RECURSIVE join(_, _)
\* sep.join(parts)
join(sep, parts) ==
    IF parts = << >> THEN << >>
    ELSE IF Len(parts) = 1 THEN parts[1]
    ELSE parts[1] \o sep \o join(sep, Tail(parts))

\* Mutant of query_parts: the raw query is put first.
query_parts_raw_first(a) ==
    (IF TruthyStr(a.query) THEN <<a.query[1]>> ELSE << >>)
    \o (IF TruthyStr(a.environment)
        THEN << <<"environment:">> \o a.environment[1] >> ELSE << >>)
    \o (IF TruthyStr(a.start_at)
        THEN << <<"firstSeen:>">> \o isoformat(fromisoformat(a.start_at[1])) \o <<"Z">> >>
        ELSE << >>)
    \o (IF TruthyStr(a.end_at)
        THEN << <<"firstSeen:<">> \o isoformat(fromisoformat(a.end_at[1])) \o <<"Z">> >>
        ELSE << >>)

\* query_parts as cmd_fetch_issues appends to it.
query_parts(a) ==
    (IF TruthyStr(a.environment)
     THEN << <<"environment:">> \o a.environment[1] >> ELSE << >>)
    \o (IF TruthyStr(a.start_at)
        THEN << <<"firstSeen:>">> \o isoformat(fromisoformat(a.start_at[1])) \o <<"Z">> >>
        ELSE << >>)
    \o (IF TruthyStr(a.end_at)
        THEN << <<"firstSeen:<">> \o isoformat(fromisoformat(a.end_at[1])) \o <<"Z">> >>
        ELSE << >>)
    \o (IF TruthyStr(a.query) THEN <<a.query[1]>> ELSE << >>)

\* query = " ".join(query_parts) if query_parts else None
build_query(a) ==
    IF query_parts(a) # << >> THEN Some(join(<<" ">>, query_parts(a))) ELSE None

\* Mutant of dates_ok: only --start-at is parsed before the request.
dates_ok_start_only(a) == TruthyStr(a.start_at) => fromisoformat(a.start_at[1]).ok

\* The dates cmd_fetch_issues parses are well formed.
dates_ok(a) ==
    /\ TruthyStr(a.start_at) => fromisoformat(a.start_at[1]).ok
    /\ TruthyStr(a.end_at) => fromisoformat(a.end_at[1]).ok

\* list_issues' url for a project.
IssuesUrl == "https://sentry.io/api/0/projects/square-inc/billing-service/issues/"

\* list_issues' params: statsPeriod, limit, sort, and query when it is truthy.
list_issues_params(q) ==
    LET base == [statsPeriod |-> "24h", limit |-> IssuesLimit, sort |-> "date"]
    IN IF TruthyStr(q) THEN base @@ ("query" :> q[1]) ELSE base

\* ---- resources
\* A JSON field: missing, null, a string or an integer (its decimal digits).
Absent == [t |-> "absent", v |-> << >>]
Null == [t |-> "null", v |-> << >>]
Str(s) == [t |-> "str", v |-> s]
Num(d) == [t |-> "int", v |-> d]
NoMeta == [t |-> "absent", value |-> Absent, type |-> Absent]
NullMeta == [t |-> "null", value |-> Absent, type |-> Absent]
Meta(v, ty) == [t |-> "dict", value |-> v, type |-> ty]
Issue(ti, cu, me) == [title |-> ti, culprit |-> cu, metadata |-> me]

\* The issues the server can answer with: each of the four searched fields
\* holding the text, and each of them missing or null.
IssueByTitle == Issue(Str(<<"N", "u", "l">>), Str(<<"f">>), NoMeta)
IssueByCulprit == Issue(Str(<<"T", "o">>), Str(<<"N", "U">>), Meta(Absent, Absent))
IssueByValue == Issue(Absent, Absent, Meta(Str(<<"x", "n", "u">>), Null))
IssueByType == Issue(Str(<<"T", "o">>), Str(<<"f">>), Meta(Null, Str(<<"N", "u">>)))
IssueOther == Issue(Str(<<"T", "o">>), Str(<<"f">>), Meta(Num(<<"7">>), Str(<<"t">>)))
IssueNullTitle == Issue(Null, Str(<<"N", "U">>), NoMeta)
IssueNullCulprit == Issue(Str(<<"N", "u", "l">>), Null, NoMeta)
IssueNullMeta == Issue(Str(<<"T", "o">>), Str(<<"f">>), NullMeta)
Resources == {IssueByTitle, IssueByCulprit, IssueByValue, IssueByType, IssueOther,
              IssueNullTitle, IssueNullCulprit, IssueNullMeta}
IssueLists == UNION {[1..n -> Resources] : n \in 0..MaxIssues}

\* What list_issues' request can meet: a list of issues comes with status 200,
\* any other answer carries no JSON.
IssueOutcomes ==
    {[kind |-> "neterr", status |-> 0, json |-> FALSE, body |-> << >>, links |-> None]}
    \cup {[kind |-> "http", status |-> s, json |-> FALSE, body |-> << >>, links |-> None] :
              s \in Statuses}
    \cup {[kind |-> "http", status |-> 200, json |-> TRUE, body |-> b, links |-> None] :
              b \in IssueLists}

\* ---- the local filter
\* str.lower(), character by character.
LowerChar(c) ==
    CASE c = "N" -> "n"
      [] c = "U" -> "u"
      [] c = "O" -> "o"
      [] c = "T" -> "t"
      [] OTHER -> c
lower(s) == [i \in 1..Len(s) |-> LowerChar(s[i])]

\* str(x): None gives "None", an int its digits, a string itself.
str(x) == IF x.t = "null" THEN <<"N", "o", "n", "e">> ELSE x.v

\* f in s, for strings.
contains(s, f) == \E i \in 0..(Len(s) - Len(f)) : SubSeq(s, i + 1, i + Len(f)) = f

\* dict.get(key, default)
dict_get(field, default) == IF field.t = "absent" THEN default ELSE field

\* Mutant of matches_text_filter: the fields are compared without lowercasing them.
matches_text_filter_case(issue, text_filter) ==
    LET f == lower(text_filter)
        title == dict_get(issue.title, Str(<< >>))
        culprit == dict_get(issue.culprit, Str(<< >>))
        metadata == issue.metadata
        value == IF metadata.t = "absent" THEN Str(<< >>)
                 ELSE dict_get(metadata.value, Str(<< >>))
        type == IF metadata.t = "absent" THEN Str(<< >>)
                ELSE dict_get(metadata.type, Str(<< >>))
    IN IF title.t # "str" THEN "AttributeError"
       ELSE IF contains(title.v, f) THEN "True"
       ELSE IF culprit.t # "str" THEN "AttributeError"
       ELSE IF contains(culprit.v, f) THEN "True"
       ELSE IF metadata.t = "null" THEN "AttributeError"
       ELSE IF contains(str(value), f) THEN "True"
       ELSE IF contains(str(type), f) THEN "True"
       ELSE "False"

\* matches_text_filter: "True", "False", or the AttributeError of calling
\* .lower() / .get() on None.
matches_text_filter(issue, text_filter) ==
    LET f == lower(text_filter)
        title == dict_get(issue.title, Str(<< >>))
        culprit == dict_get(issue.culprit, Str(<< >>))
        metadata == issue.metadata
        value == IF metadata.t = "absent" THEN Str(<< >>)
                 ELSE dict_get(metadata.value, Str(<< >>))
        type == IF metadata.t = "absent" THEN Str(<< >>)
                ELSE dict_get(metadata.type, Str(<< >>))
    IN IF title.t # "str" THEN "AttributeError"
       ELSE IF contains(lower(title.v), f) THEN "True"
       ELSE IF culprit.t # "str" THEN "AttributeError"
       ELSE IF contains(lower(culprit.v), f) THEN "True"
       ELSE IF metadata.t = "null" THEN "AttributeError"
       ELSE IF contains(lower(str(value)), f) THEN "True"
       ELSE IF contains(lower(str(type)), f) THEN "True"
       ELSE "False"

\* [issue for issue in issues if matches_text_filter(issue, text_filter)]
IsTrue(issue) == matches_text_filter(issue, args.text_filter[1]) = "True"
filter_raises(list, f) ==
    \E i \in 1..Len(list) : matches_text_filter(list[i], f) = "AttributeError"

\* ---- how the command ends
\* except Exception as e: print(..., file=sys.stderr); sys.exit(1)
Handle(exc) ==
    /\ pc' = "exited"
    /\ error' = exc
    /\ stderr' = "Error fetching issues"
    /\ exit_code' = Some(1)

\* An exception outside the try block: the interpreter prints the traceback to
\* the error stream and the process ends with status 1.
Uncaught(exc) ==
    /\ pc' = "exited"
    /\ error' = exc
    /\ stderr' = "Traceback"
    /\ exit_code' = Some(1)

InitIssues ==
    /\ pc = "cmd"
    /\ args \in [environment : Environments, start_at : StartAts, end_at : EndAts,
                 query : Queries, text_filter : TextFilters]
    /\ query = None
    /\ fetched = None
    /\ issues = << >>
    /\ rendered = None
    /\ stderr = "none"
    /\ exit_code = None
    /\ requests = 0
    /\ lastReq = NoReq
    /\ lastResp = NoResp
    /\ error = "none"
    /\ paginate = FALSE
    /\ max_pages = None
    /\ url = ""
    /\ params = None
    /\ caller_params = None
    /\ all_items = << >>
    /\ page_count = 0
    /\ pages = << >>
    /\ hasMore = << >>
    /\ result = None

\* cmd_fetch_issues up to the try block: the query is composed; a date that
\* does not parse raises ValueError there.
BuildQuery ==
    /\ pc = "cmd"
    /\ IF dates_ok(args)
       THEN /\ query' = build_query(args)
            /\ pc' = "fetch"
            /\ UNCHANGED <<error, stderr, exit_code>>
       ELSE /\ Uncaught("ValueError")
            /\ UNCHANGED query
    /\ UNCHANGED <<args, fetched, issues, rendered, requests, lastReq, lastResp>>
    /\ UNCHANGED walkVars

\* client.list_issues(...): one _get with the composed params, response.json().
ListIssues(o) ==
    /\ pc = "fetch"
    /\ requests' = requests + 1
    /\ lastReq' = [url |-> IssuesUrl, params |-> Some(list_issues_params(query))]
    /\ lastResp' = Met(o)
    /\ IF get(o) # "returned"
       THEN /\ Handle(get(o))
            /\ UNCHANGED <<fetched, issues>>
       ELSE IF ~o.json
       THEN /\ Handle("JSONDecodeError")
            /\ UNCHANGED <<fetched, issues>>
       ELSE /\ fetched' = Some(o.body)
            /\ issues' = o.body
            /\ pc' = "filter"
            /\ UNCHANGED <<error, stderr, exit_code>>
    /\ UNCHANGED <<args, query, rendered>>
    /\ UNCHANGED walkVars

\* The local text filter, applied when --text-filter is given.
ApplyTextFilter ==
    /\ pc = "filter"
    /\ IF TruthyStr(args.text_filter)
       THEN IF filter_raises(issues, args.text_filter[1])
            THEN /\ Handle("AttributeError")
                 /\ UNCHANGED issues
            ELSE /\ issues' = SelectSeq(issues, IsTrue)
                 /\ pc' = "render"
                 /\ UNCHANGED <<error, stderr, exit_code>>
       ELSE /\ pc' = "render"
            /\ UNCHANGED <<issues, error, stderr, exit_code>>
    /\ UNCHANGED <<args, query, fetched, rendered, requests, lastReq, lastResp>>
    /\ UNCHANGED walkVars

\* The issues are printed (as JSON or as summaries) and the command returns.
RenderIssues ==
    /\ pc = "render"
    /\ rendered' = Some(issues)
    /\ exit_code' = Some(0)
    /\ pc' = "exited"
    /\ UNCHANGED <<args, query, fetched, issues, stderr, error, requests, lastReq, lastResp>>
    /\ UNCHANGED walkVars

NextIssues ==
    \/ BuildQuery
    \/ \E o \in IssueOutcomes : ListIssues(o)
    \/ ApplyTextFilter
    \/ RenderIssues

SpecIssues == InitIssues /\ [][NextIssues]_vars

\* ============================================= the commands up to their exit
\* get_latest_event's url.
LatestUrl == "https://sentry.io/api/0/issues/123/events/latest/"
\* get_issue's url.
IssueUrl == "https://sentry.io/api/0/issues/123/"

\* What get_latest_event's request can meet: one event comes with status 200.
EventOutcomes ==
    {[kind |-> "neterr", status |-> 0, json |-> FALSE, body |-> "", links |-> None]}
    \cup {[kind |-> "http", status |-> s, json |-> FALSE, body |-> "", links |-> None] :
              s \in Statuses}
    \cup {[kind |-> "http", status |-> 200, json |-> TRUE, body |-> b, links |-> None] :
              b \in {"a", "b"}}

\* What get_issue's request can meet: one issue comes with status 200.
OneIssueOutcomes ==
    {[kind |-> "neterr", status |-> 0, json |-> FALSE, body |-> IssueOther, links |-> None]}
    \cup {[kind |-> "http", status |-> s, json |-> FALSE, body |-> IssueOther, links |-> None] :
              s \in Statuses}
    \cup {[kind |-> "http", status |-> 200, json |-> TRUE, body |-> b, links |-> None] :
              b \in Resources}

\* fetch-events --latest is about to call get_latest_event.
InitLatest ==
    /\ pc = "latest"
    /\ paginate = FALSE
    /\ max_pages \in MaxPagesValues
    /\ url = BaseUrl
    /\ params = None
    /\ caller_params = None
    /\ all_items = << >>
    /\ page_count = 0
    /\ requests = 0
    /\ lastReq = NoReq
    /\ lastResp = NoResp
    /\ pages = << >>
    /\ hasMore = << >>
    /\ result = None
    /\ error = "none"
    /\ args = NoArgs
    /\ query = None
    /\ fetched = None
    /\ issues = << >>
    /\ rendered = None
    /\ stderr = "none"
    /\ exit_code = None

\* fetch-issue is about to call get_issue.
InitIssue ==
    /\ pc = "issue"
    /\ paginate = FALSE
    /\ max_pages = None
    /\ url = IssueUrl
    /\ params = None
    /\ caller_params = None
    /\ all_items = << >>
    /\ page_count = 0
    /\ requests = 0
    /\ lastReq = NoReq
    /\ lastResp = NoResp
    /\ pages = << >>
    /\ hasMore = << >>
    /\ result = None
    /\ error = "none"
    /\ args = NoArgs
    /\ query = None
    /\ fetched = None
    /\ issues = << >>
    /\ rendered = None
    /\ stderr = "none"
    /\ exit_code = None

\* cmd_fetch_events with --latest: events = [client.get_latest_event(issue)].
GetLatestEvent(o) ==
    /\ pc = "latest"
    /\ requests' = requests + 1
    /\ lastReq' = [url |-> LatestUrl, params |-> None]
    /\ lastResp' = Met(o)
    /\ UNCHANGED <<paginate, max_pages, url, params, caller_params, all_items, page_count,
                   pages, hasMore>>
    /\ UNCHANGED cmdVars
    /\ IF get(o) # "returned"
       THEN Raise(get(o))
       ELSE IF ~o.json
       THEN Raise("JSONDecodeError")
       ELSE Return(<<o.body>>)

\* Mutant of FetchEventsExcept: the error is swallowed, the events accumulated
\* so far are printed and the command returns normally.
FetchEventsExcept_partial ==
    /\ pc = "failed"
    /\ pc' = "exited"
    /\ rendered' = Some(all_items)
    /\ exit_code' = Some(0)
    /\ UNCHANGED <<requests, lastReq, lastResp, error, stderr>>
    /\ UNCHANGED <<args, query, fetched, issues>>
    /\ UNCHANGED walkVars

\* cmd_fetch_events' except branch: the exception of the client call is
\* printed to the error stream and the process exits with status 1.
FetchEventsExcept ==
    /\ pc = "failed"
    /\ pc' = "exited"
    /\ stderr' = "Error fetching events"
    /\ exit_code' = Some(1)
    /\ UNCHANGED <<requests, lastReq, lastResp, error>>
    /\ UNCHANGED <<args, query, fetched, issues, rendered>>
    /\ UNCHANGED walkVars

\* cmd_fetch_events after the client call returned: the events are printed.
FetchEventsRender ==
    /\ pc = "done"
    /\ pc' = "exited"
    /\ rendered' = result
    /\ exit_code' = Some(0)
    /\ UNCHANGED <<requests, lastReq, lastResp, error>>
    /\ UNCHANGED <<args, query, fetched, issues, stderr>>
    /\ UNCHANGED walkVars

\* cmd_fetch_issue: client.get_issue, then the issue is printed; an exception
\* goes to the error stream and the process exits with status 1.
FetchIssue(o) ==
    /\ pc = "issue"
    /\ pc' = "exited"
    /\ requests' = requests + 1
    /\ lastReq' = [url |-> IssueUrl, params |-> None]
    /\ lastResp' = Met(o)
    /\ IF get(o) # "returned" \/ ~o.json
       THEN /\ error' = IF get(o) # "returned" THEN get(o) ELSE "JSONDecodeError"
            /\ stderr' = "Error fetching issue"
            /\ exit_code' = Some(1)
            /\ UNCHANGED rendered
       ELSE /\ rendered' = Some(<<o.body>>)
            /\ exit_code' = Some(0)
            /\ UNCHANGED <<error, stderr>>
    /\ UNCHANGED <<args, query, fetched, issues>>
    /\ UNCHANGED walkVars

InitCmd == Init \/ InitLatest \/ InitIssue \/ InitIssues

NextCmd ==
    \/ Next
    \/ \E o \in EventOutcomes : GetLatestEvent(o)
    \/ FetchEventsExcept
    \/ FetchEventsRender
    \/ \E o \in OneIssueOutcomes : FetchIssue(o)
    \/ NextIssues

SpecCmd == InitCmd /\ [][NextCmd]_vars

\* ================================================================ claims
RECURSIVE Flatten(_)
\* The concatenation of a sequence of lists, in order.
Flatten(ps) == IF ps = << >> THEN << >> ELSE Head(ps) \o Flatten(Tail(ps))

Min(a, b) == IF a <= b THEN a ELSE b

IsPrefix(s, t) == Len(s) <= Len(t) /\ SubSeq(t, 1, Len(s)) = s

\* The next link says, literally, results="true".
MarkedTrue(links) ==
    /\ links # None
    /\ links[1].results # None
    /\ links[1].results[1] = "true"

\* Every page read so far came with a has-more next link.
AlwaysMore == \A i \in 1..Len(hasMore) : hasMore[i]

\* The walk of a paginated fetch returned with max_pages = N >= 1.
BoundedDone == pc = "done" /\ paginate /\ max_pages # None /\ max_pages[1] >= 1

\* C1: a paginated fetch with maxPages = N >= 1 against a server that always
\* reports a next page issues exactly N requests and returns pages 1..N
\* concatenated in page order.
C1_ExactlyNPages ==
    (BoundedDone /\ AlwaysMore) =>
        /\ requests = max_pages[1]
        /\ Len(pages) = max_pages[1]
        /\ result = Some(Flatten(pages))

C1_Witness ==
    /\ pc = "done" /\ paginate /\ max_pages = Some(2)
    /\ hasMore = <<TRUE, TRUE>>
    /\ requests = 2
    /\ result = Some(<<"a", "a", "b">>)

\* C2: when the request for page k fails, the caller gets no list (not even the
\* pages already read), exactly k requests were made, and none follows.
C2_FailureDiscardsAll ==
    /\ [](paginate /\ lastResp.got \notin {"none", "returned"} =>
            /\ pc = "failed"
            /\ result = None
            /\ requests = Len(pages) + 1)
    /\ [][pc = "failed" => requests' = requests /\ result' = None]_vars

C2_Witness ==
    /\ pc = "failed" /\ paginate
    /\ error = "HTTPError"
    /\ requests = 3
    /\ all_items = <<"a", "b", "a">>
    /\ result = None

\* C3: when the first response has no next link marked as having more results,
\* exactly one request is issued whatever max_pages is, and the call returns
\* page 1's items (the empty list for an empty page).
C3_SinglePageWhenNoNext ==
    (paginate /\ Len(pages) >= 1 /\ ~hasMore[1]) =>
        /\ pc = "done"
        /\ requests = 1
        /\ result = Some(pages[1])

C3_Witness ==
    /\ paginate /\ max_pages = Some(3)
    /\ pages = << << >> >>
    /\ hasMore = <<FALSE>>
    /\ pc = "done"
    /\ result = Some(<< >>)

\* C4: with maxPages = N >= 1 and L the first page without a has-more link, a
\* successful fetch issues exactly min(N, L) requests and returns the first
\* min(N, L) pages: maxPages bounds the pages fetched.
C4_MinOfBoundAndLast ==
    BoundedDone =>
        LET N == max_pages[1]
            ends == {i \in 1..Len(hasMore) : ~hasMore[i]}
            M == IF ends = {} THEN N
                 ELSE Min(N, CHOOSE i \in ends : \A j \in ends : i <= j)
        IN /\ requests = M
           /\ Len(pages) = M
           /\ result = Some(Flatten(SubSeq(pages, 1, M)))

C4_Witness ==
    /\ pc = "done" /\ paginate /\ max_pages = Some(2)
    /\ pages = << <<"a", "b">>, <<"a">> >>
    /\ hasMore = <<TRUE, FALSE>>
    /\ requests = 2
    /\ result = Some(<<"a", "b", "a">>)

\* C5: the accumulator is always the concatenation, in fetch order, of the
\* pages read so far, and each step only appends to it.
C5_AccumulatorIsConcatenation ==
    /\ [](paginate => all_items = Flatten(pages))
    /\ [][IsPrefix(all_items, all_items')
            /\ (pages' # pages =>
                  all_items' = all_items \o pages'[Len(pages')])]_vars

C5_Witness ==
    /\ pc = "loop"
    /\ pages = << <<"a", "b">>, <<"a">>, <<"a">> >>
    /\ all_items = <<"a", "b", "a", "a">>

\* C6: with max_pages 0 or None the walk is unbounded: it returns only after the
\* first response without a has-more link, having requested every page up to it.
C6_UnboundedWhenZeroOrNone ==
    (pc = "done" /\ paginate /\ (max_pages = None \/ max_pages = Some(0))) =>
        /\ Len(hasMore) >= 1
        /\ ~hasMore[Len(hasMore)]
        /\ \A i \in 1..(Len(hasMore) - 1) : hasMore[i]
        /\ requests = Len(pages)
        /\ result = Some(Flatten(pages))

C6_Witness ==
    /\ pc = "done" /\ paginate /\ max_pages = Some(0)
    /\ hasMore = <<TRUE, TRUE, TRUE, FALSE>>
    /\ requests = 4

\* C7: a next link is followed only when its 'results' attribute is exactly
\* "true"; otherwise the page is the last one and no further request is made.
C7_FollowOnlyResultsTrue ==
    /\ [][(paginate /\ requests >= 1 /\ requests' = requests + 1) =>
            MarkedTrue(lastResp.links)]_vars
    /\ []((paginate /\ requests >= 1 /\ requests = Len(pages)
             /\ ~MarkedTrue(lastResp.links)) => pc = "done")

C7_Witness ==
    /\ paginate /\ max_pages = None
    /\ requests = 2
    /\ lastResp.links # None
    /\ lastResp.links[1].results = Some("True")
    /\ pc = "done"

\* C10 as stated: _get raises for every status outside 2xx and returns the
\* response only for 2xx.
C10_Original ==
    lastResp.kind = "http" =>
        (lastResp.got = "returned" <=> (200 <= lastResp.status /\ lastResp.status <= 299))

\* C10 amended: _get raises exactly for the statuses 400..599 and returns the
\* response for every other status; each call makes exactly one request and
\* none is retried.
C10_RaisesFor4xx5xx ==
    /\ [](lastResp.kind = "http" =>
            /\ lastResp.got = "HTTPError" <=>
                   (400 <= lastResp.status /\ lastResp.status <= 599)
            /\ lastResp.got = "returned" <=>
                   ~(400 <= lastResp.status /\ lastResp.status <= 599))
    /\ [][(lastResp' # lastResp \/ lastReq' # lastReq) => requests' = requests + 1]_vars
    /\ [][requests' # requests => (requests' = requests + 1 /\ pc \in {"loop", "single"})]_vars

C10_Witness ==
    /\ lastResp.kind = "http"
    /\ lastResp.status = 304
    /\ lastResp.got = "returned"
    /\ requests = 1

\* ---- fetch-issues
\* The criterion was given with a non-empty value.
IsSet(opt) == opt # None /\ Len(opt[1]) > 0

\* The ISO-8601 form of the dates of the command line.
Iso8601(s) ==
    CASE s = <<"2024-01-01">> -> <<"2024-01-01", "T", "00:00:00">>
      [] s = <<"2024-02-01", " ", "10:30", "+00:00">> ->
             <<"2024-02-01", "T", "10:30:00", "+00:00">>

\* a, one space, b; an empty side adds nothing.
Spaced(a, b) == IF a = << >> THEN b ELSE IF b = << >> THEN a ELSE a \o <<" ">> \o b

\* The query the criteria of the command line ask for.
ExpectedQuery ==
    LET e == IF IsSet(args.environment)
             THEN <<"environment:">> \o args.environment[1] ELSE << >>
        s == IF IsSet(args.start_at)
             THEN <<"firstSeen:>">> \o Iso8601(args.start_at[1]) \o <<"Z">> ELSE << >>
        n == IF IsSet(args.end_at)
             THEN <<"firstSeen:<">> \o Iso8601(args.end_at[1]) \o <<"Z">> ELSE << >>
        q == IF IsSet(args.query) THEN args.query[1] ELSE << >>
    IN Spaced(Spaced(Spaced(e, s), n), q)

AnyCriterion ==
    IsSet(args.environment) \/ IsSet(args.start_at) \/ IsSet(args.end_at) \/ IsSet(args.query)

\* The query has been composed (no date failed to parse).
Composed == pc \in {"fetch", "filter", "render"} \/ (pc = "exited" /\ error # "ValueError")

\* C8: the query is the fragments environment:<value>, firstSeen:><start>,
\* firstSeen:<<end> and the raw query, each present iff its criterion is set,
\* in that order, joined by single spaces; with no criterion the query is None
\* and the request carries no 'query' parameter.
C8_QueryComposition ==
    Composed =>
        /\ query = IF AnyCriterion THEN Some(ExpectedQuery) ELSE None
        /\ requests >= 1 =>
              /\ ("query" \in DOMAIN lastReq.params[1]) <=> AnyCriterion
              /\ AnyCriterion => lastReq.params[1]["query"] = ExpectedQuery

C8_Witness ==
    /\ args.environment = Some(<<"production">>)
    /\ args.start_at = None /\ args.end_at = None
    /\ args.query = Some(<<"is:unresolved">>)
    /\ query = Some(<<"environment:", "production", " ", "is:unresolved">>)
    /\ requests = 1
    /\ lastReq.params[1]["query"] = <<"environment:", "production", " ", "is:unresolved">>

\* Two characters are the same letter, whatever their case.
SameLetter(a, b) ==
    a = b \/ {a, b} \in {{"N", "n"}, {"U", "u"}, {"O", "o"}, {"T", "t"}}

\* f occurs in s, case-insensitively.
Occurs(f, s) ==
    \E k \in 0..(Len(s) - Len(f)) : \A i \in 1..Len(f) : SameLetter(f[i], s[k + i])

\* The string form of a metadata field that is there ("None" for null).
StringForm(x) == IF x.t = "null" THEN <<"N", "o", "n", "e">> ELSE x.v

\* The texts of a resource the filter searches: title, culprit,
\* str(metadata.value), str(metadata.type).
SearchedTexts(r) ==
    (IF r.title.t = "str" THEN {r.title.v} ELSE {})
    \cup (IF r.culprit.t = "str" THEN {r.culprit.v} ELSE {})
    \cup (IF r.metadata.t = "dict" /\ r.metadata.value.t # "absent"
          THEN {StringForm(r.metadata.value)} ELSE {})
    \cup (IF r.metadata.t = "dict" /\ r.metadata.type.t # "absent"
          THEN {StringForm(r.metadata.type)} ELSE {})

\* The local filter ran to its end.
Filtered == TruthyStr(args.text_filter) /\ (pc = "render" \/ rendered # None)

\* C9: the local filter keeps exactly the resources in which the filter text
\* occurs, case-insensitively, in title, culprit, str(metadata.value) or
\* str(metadata.type), in their original order and unmodified.
C9_FilterKeepsMatches ==
    Filtered =>
        LET Matches(r) == \E t \in SearchedTexts(r) : Occurs(args.text_filter[1], t)
        IN issues = SelectSeq(fetched[1], Matches)

C9_Witness ==
    /\ pc = "render"
    /\ args.text_filter = Some(<<"n", "U">>)
    /\ fetched = Some(<<IssueByTitle, IssueOther>>)
    /\ issues = <<IssueByTitle>>

\* The texts of a resource when a missing or null field counts as the empty
\* string: only the fields that hold a value can contain a non-empty filter.
PresentTexts(r) ==
    (IF r.title.t \in {"str", "int"} THEN {r.title.v} ELSE {})
    \cup (IF r.culprit.t \in {"str", "int"} THEN {r.culprit.v} ELSE {})
    \cup (IF r.metadata.t = "dict" /\ r.metadata.value.t \in {"str", "int"}
          THEN {r.metadata.value.v} ELSE {})
    \cup (IF r.metadata.t = "dict" /\ r.metadata.type.t \in {"str", "int"}
          THEN {r.metadata.type.v} ELSE {})

\* C11: a resource in which title, culprit, metadata, metadata.value or
\* metadata.type is missing or null is filtered as if that field were the empty
\* string: matches_text_filter returns a boolean, never raises, and the
\* filtering of the list is never aborted.
C11_MissingFieldsAreEmpty ==
    (TruthyStr(args.text_filter) /\ fetched # None /\ pc # "filter") =>
        /\ error # "AttributeError"
        /\ LET Matches(r) == \E t \in PresentTexts(r) : Occurs(args.text_filter[1], t)
           IN issues = SelectSeq(fetched[1], Matches)

\* A date of the command line that is not an ISO date.
Malformed(opt) == opt \in {Some(<<"yesterday">>), Some(<<"soon">>)}

\* C12: with a --start-at or --end-at that cannot be parsed, fetch-issues fails
\* before any request: no request is ever issued, and the command ends with an
\* error and nothing rendered.
C12_BadDateNoRequest ==
    (Malformed(args.start_at) \/ Malformed(args.end_at)) =>
        /\ requests = 0
        /\ lastReq = NoReq
        /\ pc \in {"cmd", "exited"}
        /\ pc = "exited" =>
              error = "ValueError" /\ exit_code = Some(1) /\ rendered = None

C12_Witness ==
    /\ args.start_at = Some(<<"2024-01-01">>)
    /\ args.end_at = Some(<<"soon">>)
    /\ pc = "exited"
    /\ error = "ValueError"
    /\ requests = 0

\* The latest request of the command failed: _get raised.
RequestFailed == lastResp.got \notin {"none", "returned"}

\* C13: in fetch-issues, fetch-issue and fetch-events a failed API request is
\* not recovered: no request follows it, no fetched resource is rendered, and
\* the process ends with a message on the error stream and a non-zero status.
C13_FailureExitsNonZero ==
    /\ [](RequestFailed =>
            /\ rendered = None
            /\ pc \in {"failed", "exited"}
            /\ pc = "failed" => ENABLED FetchEventsExcept
            /\ pc = "exited" =>
                  /\ stderr \in {"Error fetching issues", "Error fetching issue",
                                 "Error fetching events"}
                  /\ exit_code # None
                  /\ exit_code[1] # 0)
    /\ [][RequestFailed => requests' = requests /\ rendered' = None]_vars

C13_Witness ==
    /\ pc = "exited"
    /\ paginate
    /\ lastResp.got = "HTTPError"
    /\ requests = 3
    /\ all_items = <<"a", "b", "a">>
    /\ stderr = "Error fetching events"
    /\ exit_code = Some(1)
    /\ rendered = None

\* C14: the first request of a paginated fetch goes to the base URL with the
\* caller's query parameters (limit included); every later request goes to
\* exactly the URL of the previous response's next link and carries no
\* parameters; the caller's mapping is left as it was.
C14_RequestTargets ==
    /\ [][(paginate /\ requests = 0 /\ requests' = 1) =>
            lastReq' = [url |-> BaseUrl, params |-> Some([limit |-> DefaultLimit])]]_vars
    /\ [][(paginate /\ requests >= 1 /\ requests' = requests + 1) =>
            /\ lastResp.links # None
            /\ lastReq'.url = lastResp.links[1].url
            /\ lastReq'.params = None]_vars
    /\ [](paginate /\ pc # "start" => caller_params = Some([limit |-> DefaultLimit]))

C14_Witness ==
    /\ paginate
    /\ requests = 3
    /\ lastReq = [url |-> "events/?cursor=0:200:0", params |-> None]
    /\ caller_params = Some([limit |-> DefaultLimit])
    /\ pc = "loop"
    /\ url = "events/?cursor=0:100:0"

\* At least n pages are there to fetch: none of the pages read before the
\* n-th was the last one.
Available(n) == \A i \in 1..Min(n - 1, Len(hasMore)) : hasMore[i]

\* C15 as stated: max_pages counts continuation decisions, so that walking a
\* series of 3 or more pages under a bound N fetches a number of pages that is
\* off by one from N. The claim asserts it of some series; it is written here
\* for each walk of 3 or more pages, and C15_NoOffByOne shows that no walk at
\* all has it.
C15_Original ==
    (BoundedDone /\ max_pages[1] >= 3 /\ Available(max_pages[1])) =>
        requests # max_pages[1]

\* C15 amended: the counter is incremented and the bound checked before the
\* page the link points to is fetched; at that point the counter equals the
\* number of pages already fetched, so under a bound N >= 1 with at least N
\* pages available exactly N pages are fetched, never N - 1 or N + 1.
C15_NoOffByOne ==
    /\ paginate => page_count = Cardinality({i \in 1..Len(hasMore) : hasMore[i]})
    /\ (paginate /\ pc = "loop") => (page_count = requests /\ page_count = Len(pages))
    /\ (paginate /\ pc = "loop" /\ max_pages # None /\ max_pages[1] >= 1) =>
           page_count < max_pages[1]
    /\ (BoundedDone /\ Available(max_pages[1])) =>
           (requests = max_pages[1] /\ Len(pages) = max_pages[1])

C15_Witness ==
    /\ pc = "done" /\ paginate /\ max_pages = Some(3)
    /\ hasMore = <<TRUE, TRUE, TRUE>>
    /\ page_count = 3
    /\ requests = 3

\* The call is over: it returned or an exception left it.
Terminated == pc \in {"done", "failed"}

\* The latest response was read as a page and its next link said results="true".
LastSaidMore == Len(hasMore) >= 1 /\ hasMore[Len(hasMore)] /\ requests = Len(pages)

\* C16: every request returning or failing, a paginated fetch with
\* max_pages >= 1 terminates after at most max_pages requests whatever the
\* server answers; with max_pages None or 0 it terminates exactly when a
\* response fails or lacks a has-more next link, so that it is still running
\* after any number of responses that all report a next page.
C16_Termination ==
    /\ (paginate /\ max_pages # None /\ max_pages[1] >= 1) ~> Terminated
    /\ []((paginate /\ max_pages # None /\ max_pages[1] >= 1) =>
             requests <= max_pages[1])
    /\ []((paginate /\ requests >= 1 /\ (max_pages = None \/ max_pages = Some(0))) =>
             (Terminated <=> ~LastSaidMore))

C16_Witness ==
    /\ paginate /\ max_pages = None
    /\ requests = MaxRequests
    /\ \A i \in 1..Len(hasMore) : hasMore[i]
    /\ Len(hasMore) = MaxRequests
    /\ pc = "loop"

\* C17: a negative max_pages is not unbounded like 0: the walk makes exactly
\* one request and returns page 1's items alone, also when the server reports
\* further pages.
C17_NegativeBoundOnePage ==
    (paginate /\ max_pages # None /\ max_pages[1] < 0 /\ Len(pages) >= 1) =>
        /\ pc = "done"
        /\ requests = 1
        /\ page_count <= 1
        /\ result = Some(pages[1])

C17_Witness ==
    /\ paginate /\ max_pages = Some(-1)
    /\ pages = << <<"a", "b">> >>
    /\ hasMore = <<TRUE>>
    /\ pc = "done"
    /\ requests = 1
    /\ result = Some(<<"a", "b">>)

====
